---- MODULE Spec2Model ----
(***************************************************************************)
(* A model of burrow_client.py: the BurrowClient object (its seven         *)
(* memoizing getters over the Burrow HTTP API, the two name filters, the   *)
(* partition statistics normaliser and the report generators).             *)
(*                                                                         *)
(* JSON trees are tagged values [t, v]; a Python exception is the field    *)
(* `raised` of the machine record that is threaded through every method.   *)
(***************************************************************************)
EXTENDS Integers, Sequences, FiniteSets, TLC

VARIABLES
    self,     \* the BurrowClient object: its attributes
    call,     \* the last method call: what was asked, what it returned
    input,    \* the argument handed to a pure method (None elsewhere)
    ncalls    \* number of method calls made on the object so far

vars == <<self, call, input, ncalls>>

(***************************************************************************)
(* Bounds of the model                                                     *)
(***************************************************************************)
MaxCalls == 2

\* the server's data changes over time: two versions of every resource
Versions == {1, 2}

(***************************************************************************)
(* JSON values, as json.loads builds them                                  *)
(***************************************************************************)
Null == [t |-> "null", v |-> 0]
Num(n) == [t |-> "int", v |-> n]
Str(s) == [t |-> "str", v |-> s]
List(seq) == [t |-> "list", v |-> seq]
Pair(k, val) == [k |-> k, v |-> val]
\* a dict keeps the order of its keys (the order of the JSON document)
Dict(pairs) == [t |-> "dict", v |-> pairs]
EmptyList == List(<<>>)
EmptyDict == Dict(<<>>)

\* Python truth value of a JSON value
Truthy(j) ==
    CASE j.t = "null" -> FALSE
      [] j.t = "int" -> j.v # 0
      [] j.t = "str" -> j.v # ""
      [] j.t = "list" -> j.v # <<>>
      [] j.t = "dict" -> j.v # <<>>

Keys(d) == {d.v[i].k : i \in 1..Len(d.v)}

\* key in dict
Has(d, k) == k \in Keys(d)

\* dict.get(k, default); of a repeated key the last one counts
Get(d, k, default) ==
    IF Has(d, k)
    THEN d.v[CHOOSE i \in 1..Len(d.v) :
                 d.v[i].k = k /\ \A j \in (i+1)..Len(d.v) : d.v[j].k # k].v
    ELSE default

RECURSIVE SeqWithout(_, _)
SeqWithout(pairs, k) ==
    IF pairs = <<>> THEN <<>>
    ELSE IF Head(pairs).k = k THEN SeqWithout(Tail(pairs), k)
    ELSE <<Head(pairs)>> \o SeqWithout(Tail(pairs), k)

\* the document d with the member k left out / set to val
Without(d, k) == Dict(SeqWithout(d.v, k))
With(d, k, val) == Dict(SeqWithout(d.v, k) \o <<Pair(k, val)>>)

(***************************************************************************)
(* The Burrow server, as the client sees it.  A resource is named by the   *)
(* path segments of its URL.  The server answers a GET with a JSON         *)
(* envelope, or the GET fails (requests.get raises, or response.json()     *)
(* raises on a body that is no JSON).                                      *)
(***************************************************************************)
ClusterNames == {"a", "a-b"}
\* names of topics and of consumer groups
Names == {"c", "b-c"}

Fail(error) == [t |-> "fail", v |-> error]
Failures == {Fail("ConnectionError"), Fail("JSONDecodeError")}

Envelope(field, payload) ==
    Dict(<<Pair("error", Num(0)), Pair("message", Str("returned")), Pair(field, payload)>>)
\* an answer that carries no payload field
Bare == Dict(<<Pair("error", Num(1)), Pair("message", Str("not found"))>>)

\* a number that tells the resources (and the versions of one resource) apart
Base(ver, c, x) == 100 * ver + 10 * Len(c) + Len(x)

ClusterList(ver) ==
    IF ver % 2 = 1 THEN List(<<Str("a-b"), Str("a")>>) ELSE List(<<Str("a")>>)

Module(ver, c) ==
    Dict(<<Pair("class-name", Str("kafka")),
           Pair("client-profile", Dict(<<Pair("client-id", Str("burrow-" \o c)),
                                         Pair("kafka-version", Str("0.8"))>>)),
           Pair("offset-refresh", Num(30 * ver)),
           Pair("servers", List(<<Str("k1:9092"), Str("k2:9092")>>)),
           Pair("topic-refresh", Num(120))>>)

NameList(ver, c) ==
    IF c = "a" /\ ver % 2 = 1 THEN List(<<Str("c"), Str("b-c")>>)
    ELSE IF c = "a" THEN List(<<Str("b-c")>>)
    ELSE List(<<Str("c")>>)

Offsets(ver, c, t) ==
    List(<<Num(Base(ver, c, t) + 1), Num(Base(ver, c, t)), Num(Base(ver, c, t) + 2)>>)

OffsetEntry(lag, offset, timestamp) ==
    Dict(<<Pair("lag", Num(lag)), Pair("offset", Num(offset)), Pair("timestamp", Num(timestamp))>>)

ConsumerDetailEntry(ver, c, g) ==
    Dict(<<Pair("current-lag", Num(ver)),
           Pair("offsets", List(<<OffsetEntry(0, Base(ver, c, g), 1000 * Base(ver, c, g)),
                                  OffsetEntry(0, Base(ver, c, g) + 1, 1000 * Base(ver, c, g) + 500)>>)),
           Pair("owner", Str(""))>>)

ConsumerDetail(ver, c, g) ==
    Dict(<<Pair("c", List(<<ConsumerDetailEntry(ver, c, g)>>))>>)

Partition(ver, c, g, topic, n, owner) ==
    Dict(<<Pair("current_lag", Num(n)),
           Pair("end", OffsetEntry(20 + n, Base(ver, c, g) + n, 1000 * (Base(ver, c, g) + n))),
           Pair("owner", Str(owner)),
           Pair("partition", Num(n)),
           Pair("status", Str("OK")),
           Pair("topic", Str(topic))>>)

Status(ver, c, g) ==
    Dict(<<Pair("cluster", Str(c)),
           Pair("group", Str(g)),
           Pair("status", Str("WARN")),
           Pair("maxlag", Partition(ver, c, g, "c", 1, "alice")),
           Pair("partitions", List(<<Partition(ver, c, g, "c", 1, "alice"),
                                     Partition(ver, c, g, "b-c", 0, "")>>)),
           Pair("totallag", Num(1))>>)

\* what version ver of the server answers for a resource
Answer(ver, path) ==
    CASE Len(path) = 0 -> Envelope("clusters", ClusterList(ver))
      [] Len(path) = 1 -> Envelope("module", Module(ver, path[1]))
      [] Len(path) = 2 /\ path[2] = "topic" -> Envelope("topics", NameList(ver, path[1]))
      [] Len(path) = 2 /\ path[2] = "consumer" -> Envelope("consumers", NameList(ver, path[1]))
      [] Len(path) = 3 /\ path[2] = "topic" -> Envelope("offsets", Offsets(ver, path[1], path[3]))
      [] Len(path) = 3 /\ path[2] = "consumer" -> Envelope("topics", ConsumerDetail(ver, path[1], path[3]))
      [] Len(path) = 4 -> Envelope("status", Status(ver, path[1], path[3]))

\* the payload field of a resource and its empty container
FieldOf(path) ==
    CASE Len(path) = 0 -> "clusters"
      [] Len(path) = 1 -> "module"
      [] Len(path) = 2 /\ path[2] = "topic" -> "topics"
      [] Len(path) = 2 /\ path[2] = "consumer" -> "consumers"
      [] Len(path) = 3 /\ path[2] = "topic" -> "offsets"
      [] Len(path) = 3 /\ path[2] = "consumer" -> "topics"
      [] Len(path) = 4 -> "status"

EmptyOf(path) ==
    IF FieldOf(path) \in {"clusters", "topics", "consumers", "offsets"}
       /\ ~(Len(path) = 3 /\ path[2] = "consumer")
    THEN EmptyList ELSE EmptyDict

(***************************************************************************)
(* The server during one method call: version ver of every resource,       *)
(* except that the resource `path` is answered by `resp`.                  *)
(***************************************************************************)
Respond(up, path) == IF path = up.path THEN up.resp ELSE Answer(up.ver, path)

\* the answers the getters of a resource are tried with
GetterAnswers(path) ==
    {Envelope(FieldOf(path), EmptyOf(path)), Bare, Fail("ConnectionError")}

Servers(path) ==
    {[ver |-> ver, path |-> path, resp |-> Answer(ver, path)] : ver \in Versions}
    \cup {[ver |-> 1, path |-> path, resp |-> r] : r \in GetterAnswers(path)}

(***************************************************************************)
(* The BurrowClient object                                                 *)
(***************************************************************************)
\* __init__: the attributes of a new client
NewClient ==
    [verbose |-> FALSE, decimal |-> FALSE,
     enable_clusters |-> FALSE, enable_topics |-> FALSE, enable_consumers |-> FALSE,
     enable_consumer_status |-> FALSE, enable_consumer_partitions |-> FALSE,
     filter_topic |-> Null, filter_consumer |-> Null,
     _clusters |-> Null,
     _cluster_details |-> <<>>, _consumers |-> <<>>, _topics |-> <<>>,
     _topic_details |-> <<>>, _consumer_details |-> <<>>, _consumer_status |-> <<>>]

\* d[key] = val of a Python dict held as a function
Put(d, key, val) == [x \in (DOMAIN d) \cup {key} |-> IF x = key THEN val ELSE d[x]]

(***************************************************************************)
(* A method runs on a machine record m: the object, the GET requests       *)
(* issued so far by the running call, and the exception raised ("" while   *)
(* none is).  It yields the machine it leaves and its return value.        *)
(***************************************************************************)
Start(obj) == [self |-> obj, reqs |-> <<>>, raised |-> ""]
Ret(m, val) == [m |-> m, val |-> val]
Raise(m, error) == Ret([m EXCEPT !.raised = error], Null)

\* F of the value of v: v is computed once, before F uses it
Do(v, F(_)) == CHOOSE result \in {F(x) : x \in {v}} : TRUE

\* a GET whose failure is caught and answered with an empty body
request_swallow(m, up, path) ==
    LET sent == [m EXCEPT !.reqs = Append(@, path)]
        response == Respond(up, path)
    IN  IF response.t = "fail" THEN Ret(sent, EmptyDict) ELSE Ret(sent, response)

\* one GET of the resource; get() or response.json() may raise
request(m, up, path) ==
    LET sent == [m EXCEPT !.reqs = Append(@, path)]
        response == Respond(up, path)
    IN  IF response.t = "fail" THEN Raise(sent, response.v) ELSE Ret(sent, response)

clusters(m, up) ==
    IF Truthy(m.self._clusters) THEN Ret(m, m.self._clusters)
    ELSE Do(request(m, up, <<>>), LAMBDA r :
             IF r.m.raised # "" THEN r
             ELSE Do(Get(r.val, "clusters", EmptyList), LAMBDA found :
                      IF Truthy(found)
                      THEN Ret([r.m EXCEPT !.self._clusters = found], found)
                      ELSE Ret(r.m, found)))

cluster_details(m, up, cluster) ==
    LET key == cluster
    IN  IF key \in DOMAIN m.self._cluster_details THEN Ret(m, m.self._cluster_details[key])
        ELSE Do(request(m, up, <<cluster>>), LAMBDA r :
                 IF r.m.raised # "" THEN r
                 ELSE Do(Get(r.val, "module", EmptyDict), LAMBDA found :
                          IF Truthy(found)
                          THEN Ret([r.m EXCEPT !.self._cluster_details = Put(@, key, found)], found)
                          ELSE Ret(r.m, found)))

topics(m, up, cluster) ==
    LET key == cluster
    IN  IF key \in DOMAIN m.self._topics THEN Ret(m, m.self._topics[key])
        ELSE Do(request(m, up, <<cluster, "topic">>), LAMBDA r :
                 IF r.m.raised # "" THEN r
                 ELSE Do(Get(r.val, "topics", EmptyList), LAMBDA found :
                          IF Truthy(found)
                          THEN Ret([r.m EXCEPT !.self._topics = Put(@, key, found)], found)
                          ELSE Ret(r.m, found)))

\* "{cluster}-{topic}".format(...), "{cluster}-{consumer}".format(...)
PairKey(cluster, name) == cluster \o "-" \o name

\* topic_details that stores whatever it extracted, empty or not
topic_details_store_empty(m, up, cluster, topic) ==
    LET key == PairKey(cluster, topic)
    IN  IF key \in DOMAIN m.self._topic_details THEN Ret(m, m.self._topic_details[key])
        ELSE Do(request(m, up, <<cluster, "topic", topic>>), LAMBDA r :
                 IF r.m.raised # "" THEN r
                 ELSE Do(Get(r.val, "offsets", EmptyList), LAMBDA found :
                          Ret([r.m EXCEPT !.self._topic_details = Put(@, key, found)], found)))

topic_details(m, up, cluster, topic) ==
    LET key == PairKey(cluster, topic)
    IN  IF key \in DOMAIN m.self._topic_details THEN Ret(m, m.self._topic_details[key])
        ELSE Do(request(m, up, <<cluster, "topic", topic>>), LAMBDA r :
                 IF r.m.raised # "" THEN r
                 ELSE Do(Get(r.val, "offsets", EmptyList), LAMBDA found :
                          IF Truthy(found)
                          THEN Ret([r.m EXCEPT !.self._topic_details = Put(@, key, found)], found)
                          ELSE Ret(r.m, found)))

\* consumers that asks the server on every call and overwrites its entry
consumers_refetch(m, up, cluster) ==
    LET key == cluster
    IN  Do(request(m, up, <<cluster, "consumer">>), LAMBDA r :
                 IF r.m.raised # "" THEN r
                 ELSE Do(Get(r.val, "consumers", EmptyList), LAMBDA found :
                          IF Truthy(found)
                          THEN Ret([r.m EXCEPT !.self._consumers = Put(@, key, found)], found)
                          ELSE Ret(r.m, found)))

consumers(m, up, cluster) ==
    LET key == cluster
    IN  IF key \in DOMAIN m.self._consumers THEN Ret(m, m.self._consumers[key])
        ELSE Do(request(m, up, <<cluster, "consumer">>), LAMBDA r :
                 IF r.m.raised # "" THEN r
                 ELSE Do(Get(r.val, "consumers", EmptyList), LAMBDA found :
                          IF Truthy(found)
                          THEN Ret([r.m EXCEPT !.self._consumers = Put(@, key, found)], found)
                          ELSE Ret(r.m, found)))

consumer_details(m, up, cluster, consumer) ==
    LET key == PairKey(cluster, consumer)
    IN  IF key \in DOMAIN m.self._consumer_details THEN Ret(m, m.self._consumer_details[key])
        ELSE Do(request(m, up, <<cluster, "consumer", consumer>>), LAMBDA r :
                 IF r.m.raised # "" THEN r
                 ELSE Do(Get(r.val, "topics", EmptyDict), LAMBDA found :
                          IF Truthy(found)
                          THEN Ret([r.m EXCEPT !.self._consumer_details = Put(@, key, found)], found)
                          ELSE Ret(r.m, found)))

\* consumer_status that asks for the consumer resource, without the lag segment
consumer_status_no_lag(m, up, cluster, consumer) ==
    LET key == PairKey(cluster, consumer)
    IN  IF key \in DOMAIN m.self._consumer_status THEN Ret(m, m.self._consumer_status[key])
        ELSE Do(request(m, up, <<cluster, "consumer", consumer>>), LAMBDA r :
                 IF r.m.raised # "" THEN r
                 ELSE Do(Get(r.val, "status", EmptyDict), LAMBDA found :
                          IF Truthy(found)
                          THEN Ret([r.m EXCEPT !.self._consumer_status = Put(@, key, found)], found)
                          ELSE Ret(r.m, found)))

consumer_status(m, up, cluster, consumer) ==
    LET key == PairKey(cluster, consumer)
    IN  IF key \in DOMAIN m.self._consumer_status THEN Ret(m, m.self._consumer_status[key])
        ELSE Do(request(m, up, <<cluster, "consumer", consumer, "lag">>), LAMBDA r :
                 IF r.m.raised # "" THEN r
                 ELSE Do(Get(r.val, "status", EmptyDict), LAMBDA found :
                          IF Truthy(found)
                          THEN Ret([r.m EXCEPT !.self._consumer_status = Put(@, key, found)], found)
                          ELSE Ret(r.m, found)))

(***************************************************************************)
(* Calls of the getters                                                    *)
(***************************************************************************)
NoCall == [op |-> "", args |-> <<>>, up |-> Null, reqs |-> <<>>, raised |-> "", ret |-> Null]

\* the call of method op took the object to r.m.self and returned r.val
Called(op, args, up, r) ==
    /\ self' = r.m.self
    /\ call' = [op |-> op, args |-> args, up |-> up,
                reqs |-> r.m.reqs, raised |-> r.m.raised, ret |-> r.val]
    /\ ncalls' = ncalls + 1
    /\ UNCHANGED input

GetClusters ==
    /\ ncalls < MaxCalls
    /\ \E up \in Servers(<<>>) :
           Called("clusters", <<>>, up, clusters(Start(self), up))

GetClusterDetails ==
    /\ ncalls < MaxCalls
    /\ \E c \in ClusterNames : \E up \in Servers(<<c>>) :
           Called("cluster_details", <<c>>, up, cluster_details(Start(self), up, c))

GetTopics ==
    /\ ncalls < MaxCalls
    /\ \E c \in ClusterNames : \E up \in Servers(<<c, "topic">>) :
           Called("topics", <<c>>, up, topics(Start(self), up, c))

GetTopicDetails ==
    /\ ncalls < MaxCalls
    /\ \E c \in ClusterNames, t \in Names : \E up \in Servers(<<c, "topic", t>>) :
           Called("topic_details", <<c, t>>, up, topic_details(Start(self), up, c, t))

GetConsumers ==
    /\ ncalls < MaxCalls
    /\ \E c \in ClusterNames : \E up \in Servers(<<c, "consumer">>) :
           Called("consumers", <<c>>, up, consumers(Start(self), up, c))

GetConsumerDetails ==
    /\ ncalls < MaxCalls
    /\ \E c \in ClusterNames, g \in Names : \E up \in Servers(<<c, "consumer", g>>) :
           Called("consumer_details", <<c, g>>, up, consumer_details(Start(self), up, c, g))

GetConsumerStatus ==
    /\ ncalls < MaxCalls
    /\ \E c \in ClusterNames, g \in Names : \E up \in Servers(<<c, "consumer", g, "lag">>) :
           Called("consumer_status", <<c, g>>, up, consumer_status(Start(self), up, c, g))

Init ==
    /\ self = NewClient
    /\ call = NoCall
    /\ input = Null
    /\ ncalls = 0

Next ==
    \/ GetClusters
    \/ GetClusterDetails
    \/ GetTopics
    \/ GetTopicDetails
    \/ GetConsumers
    \/ GetConsumerDetails
    \/ GetConsumerStatus

Spec == Init /\ [][Next]_vars

(***************************************************************************)
(* The cache, as the getters look it up                                    *)
(***************************************************************************)
GetterOps ==
    {"clusters", "cluster_details", "topics", "topic_details",
     "consumers", "consumer_details", "consumer_status"}

\* whether the getter op, called with args, finds its value in the object
Cached(obj, op, args) ==
    CASE op = "clusters" -> Truthy(obj._clusters)
      [] op = "cluster_details" -> args[1] \in DOMAIN obj._cluster_details
      [] op = "topics" -> args[1] \in DOMAIN obj._topics
      [] op = "topic_details" -> PairKey(args[1], args[2]) \in DOMAIN obj._topic_details
      [] op = "consumers" -> args[1] \in DOMAIN obj._consumers
      [] op = "consumer_details" -> PairKey(args[1], args[2]) \in DOMAIN obj._consumer_details
      [] op = "consumer_status" -> PairKey(args[1], args[2]) \in DOMAIN obj._consumer_status

\* the value it finds
Entry(obj, op, args) ==
    CASE op = "clusters" -> obj._clusters
      [] op = "cluster_details" -> obj._cluster_details[args[1]]
      [] op = "topics" -> obj._topics[args[1]]
      [] op = "topic_details" -> obj._topic_details[PairKey(args[1], args[2])]
      [] op = "consumers" -> obj._consumers[args[1]]
      [] op = "consumer_details" -> obj._consumer_details[PairKey(args[1], args[2])]
      [] op = "consumer_status" -> obj._consumer_status[PairKey(args[1], args[2])]

ArgsOf(op) ==
    CASE op = "clusters" -> {<<>>}
      [] op \in {"cluster_details", "topics", "consumers"} -> {<<c>> : c \in ClusterNames}
      [] OTHER -> {<<c, x>> : c \in ClusterNames, x \in Names}

\* a getter was called in this step
GetterStep == ncalls' = ncalls + 1 /\ call'.op \in GetterOps

(***************************************************************************)
(* The resources of the API, as the specification names them               *)
(***************************************************************************)
ResourcePath(op, args) ==
    CASE op = "clusters" -> <<>>
      [] op = "cluster_details" -> <<args[1]>>
      [] op = "topics" -> <<args[1], "topic">>
      [] op = "topic_details" -> <<args[1], "topic", args[2]>>
      [] op = "consumers" -> <<args[1], "consumer">>
      [] op = "consumer_details" -> <<args[1], "consumer", args[2]>>
      [] op = "consumer_status" -> <<args[1], "consumer", args[2], "lag">>

ResourceField(op) ==
    CASE op = "clusters" -> "clusters"
      [] op = "cluster_details" -> "module"
      [] op = "topics" -> "topics"
      [] op = "topic_details" -> "offsets"
      [] op = "consumers" -> "consumers"
      [] op = "consumer_details" -> "topics"
      [] op = "consumer_status" -> "status"

EmptyContainer(op) ==
    IF op \in {"clusters", "topics", "topic_details", "consumers"} THEN EmptyList ELSE EmptyDict

\* what the answer the server gave to the last call holds for the getter op
Served(op) == Get(call.up.resp, ResourceField(op), EmptyContainer(op))

(***************************************************************************)
(* C1.  Memoization: once a getter has returned a non-empty value for a    *)
(* key, the value stays in the cache unchanged, and every later call with  *)
(* that key returns it and issues no request, whatever the server would    *)
(* answer now.                                                             *)
(***************************************************************************)
C1_Memoization ==
    [][/\ \A op \in GetterOps : \A args \in ArgsOf(op) :
              Cached(self, op, args) =>
                  /\ Cached(self', op, args)
                  /\ Entry(self', op, args) = Entry(self, op, args)
                  /\ (GetterStep /\ call'.op = op /\ call'.args = args) =>
                         /\ call'.raised = ""
                         /\ call'.reqs = <<>>
                         /\ call'.ret = Entry(self, op, args)
       /\ (GetterStep /\ call'.raised = "" /\ Truthy(call'.ret)) =>
              /\ Cached(self', call'.op, call'.args)
              /\ Entry(self', call'.op, call'.args) = call'.ret
      ]_vars

\* a call answered from the cache while the server holds another non-empty value
C1_Witness ==
    /\ call.op \in GetterOps
    /\ call.raised = "" /\ call.reqs = <<>> /\ Truthy(call.ret)
    /\ call.up.resp.t = "dict"
    /\ Truthy(Served(call.op)) /\ Served(call.op) # call.ret

(***************************************************************************)
(* C2.  An empty value is never stored: a getter that finds no entry for   *)
(* its key issues the request; when the answer holds an empty container    *)
(* or no payload field, the getter returns the empty container and leaves  *)
(* the object as it was, so the key still has no entry.                    *)
(***************************************************************************)
C2_EmptyNeverStored ==
    [][GetterStep =>
          /\ ~Cached(self, call'.op, call'.args) =>
                 call'.reqs = <<ResourcePath(call'.op, call'.args)>>
          /\ (/\ call'.reqs # <<>> /\ call'.raised = ""
              /\ ~Truthy(Get(call'.up.resp, ResourceField(call'.op), Null))) =>
                 /\ call'.ret = EmptyContainer(call'.op)
                 /\ ~Cached(self', call'.op, call'.args)
                 /\ self' = self
      ]_vars

\* a second empty answer in a row: the getter asked the server again
C2_Witness ==
    /\ ncalls >= 2
    /\ call.op \in GetterOps
    /\ call.raised = "" /\ call.reqs # <<>>
    /\ call.ret = EmptyContainer(call.op)
    /\ ~Cached(self, call.op, call.args)
    /\ self = NewClient

(***************************************************************************)
(* C3.  On an empty cache a getter issues exactly one request, with the    *)
(* path segments of its resource, and returns the payload field of the     *)
(* answer (the empty container when the field is absent).                  *)
(***************************************************************************)
C3_FirstFetch ==
    (ncalls = 1 /\ call.op \in GetterOps) =>
        /\ call.reqs = <<ResourcePath(call.op, call.args)>>
        /\ call.raised = "" => call.ret = Served(call.op)

C3_Witness ==
    /\ ncalls = 1
    /\ call.op = "consumer_status" /\ call.args = <<"a-b", "b-c">>
    /\ call.reqs = <<<<"a-b", "consumer", "b-c", "lag">>>>
    /\ Truthy(call.ret)

(***************************************************************************)
(* C4.  Cache entries are per pair: topic_details(c, t),                   *)
(* consumer_details(c, g) and consumer_status(c, g) return only values     *)
(* the server holds for that very pair.                                    *)
(***************************************************************************)
C4_PerPairEntries ==
    (/\ call.op \in {"topic_details", "consumer_details", "consumer_status"}
     /\ call.raised = "" /\ Truthy(call.ret)) =>
        \E ver \in Versions :
            call.ret = Get(Answer(ver, ResourcePath(call.op, call.args)),
                           ResourceField(call.op), Null)

(***************************************************************************)
(* The filters: match_topic and match_consumer                             *)
(***************************************************************************)
Bool(b) == [t |-> "bool", v |-> b]

\* re.match(pattern, string) for patterns of literal characters and ".":
\* the pattern must match at the beginning of the string, not all of it
RECURSIVE re_match(_, _)
re_match(pattern, string) ==
    IF pattern = "" THEN TRUE
    ELSE IF string = "" THEN FALSE
    ELSE /\ Head(pattern) \in {".", Head(string)}
         /\ re_match(Tail(pattern), Tail(string))

\* match_topic with the two tests in the other order
match_topic_value_first(obj, topic) ==
    IF ~Truthy(topic) THEN Bool(FALSE)
    ELSE IF ~Truthy(obj.filter_topic) THEN Bool(TRUE)
    ELSE Bool(re_match(obj.filter_topic.v, topic.v))

match_topic(obj, topic) ==
    IF ~Truthy(obj.filter_topic) THEN Bool(TRUE)
    ELSE IF ~Truthy(topic) THEN Bool(FALSE)
    ELSE Bool(re_match(obj.filter_topic.v, topic.v))

match_consumer(obj, consumer) ==
    IF ~Truthy(obj.filter_consumer) THEN Bool(TRUE)
    ELSE IF ~Truthy(consumer) THEN Bool(FALSE)
    ELSE Bool(re_match(obj.filter_consumer.v, consumer.v))

\* a pure method returned val
Computed(op, val) ==
    /\ call' = [op |-> op, args |-> <<input>>, up |-> Null,
                reqs |-> <<>>, raised |-> "", ret |-> val]
    /\ ncalls' = ncalls + 1
    /\ UNCHANGED <<self, input>>

MatchTopic ==
    /\ ncalls < MaxCalls
    /\ Computed("match_topic", match_topic(self, input))

MatchConsumer ==
    /\ ncalls < MaxCalls
    /\ Computed("match_consumer", match_consumer(self, input))

Patterns == {Null, Str(""), Str("c"), Str("b-"), Str(".")}
FilteredValues == {Null, Str(""), Str("c"), Str("b-c")}

InitMatch ==
    /\ self \in {[NewClient EXCEPT !.filter_topic = ft, !.filter_consumer = fc] :
                 ft \in Patterns, fc \in Patterns}
    /\ call = NoCall
    /\ input \in FilteredValues
    /\ ncalls = 0

NextMatch == MatchTopic \/ MatchConsumer

SpecMatch == InitMatch /\ [][NextMatch]_vars

(***************************************************************************)
(* The partition statistics normaliser                                     *)
(***************************************************************************)
\* get_partition_stats that takes end.lag whenever end has one
get_partition_stats_end_first(partition_data) ==
    LET topic == Get(partition_data, "topic", Str("?"))
        found == Get(partition_data, "end", EmptyDict)
        end == IF found.t = "dict" THEN found ELSE EmptyDict
        lag == IF Has(end, "lag") THEN Get(end, "lag", Num(0))
               ELSE Get(partition_data, "current_lag", Num(0))
    IN  Dict(<<Pair("topic", topic),
               Pair("lag", lag),
               Pair("offset", Get(end, "offset", Num(0))),
               Pair("timestamp", Get(end, "timestamp", Num(0))),
               Pair("status", Get(partition_data, "status", Str("?"))),
               Pair("owner", Get(partition_data, "owner", Str("?"))),
               Pair("partition", Get(partition_data, "partition", Str("?")))>>)

get_partition_stats(partition_data) ==
    LET topic == Get(partition_data, "topic", Str("?"))
        found == Get(partition_data, "end", EmptyDict)
        end == IF found.t = "dict" THEN found ELSE EmptyDict
        lag == IF Has(partition_data, "current_lag")
               THEN Get(partition_data, "current_lag", Num(0))
               ELSE Get(end, "lag", Num(0))
        offset == Get(end, "offset", Num(0))
        timestamp == Get(end, "timestamp", Num(0))
        status == Get(partition_data, "status", Str("?"))
        owner == Get(partition_data, "owner", Str("?"))
        partition == Get(partition_data, "partition", Str("?"))
    IN  Dict(<<Pair("topic", topic),
               Pair("lag", lag),
               Pair("offset", offset),
               Pair("timestamp", timestamp),
               Pair("status", status),
               Pair("owner", owner),
               Pair("partition", partition)>>)

GetPartitionStats ==
    /\ ncalls < MaxCalls
    /\ Computed("get_partition_stats", get_partition_stats(input))

\* partition records, each member present or not
Absent == [t |-> "absent", v |-> 0]
Member(k, val) == IF val = Absent THEN <<>> ELSE <<Pair(k, val)>>

PartitionRecord(current_lag, end, topic, owner) ==
    Dict(Member("current_lag", current_lag) \o Member("end", end)
         \o Member("owner", owner) \o Member("topic", topic))

EndValues ==
    {Absent, Null, Num(5), EmptyDict,
     Dict(<<Pair("lag", Num(3))>>),
     Dict(<<Pair("offset", Num(9)), Pair("timestamp", Num(1000))>>),
     Dict(<<Pair("lag", Num(3)), Pair("offset", Num(9)), Pair("timestamp", Num(1000))>>)}

PartitionRecords ==
    {PartitionRecord(current_lag, end, topic, owner) :
         current_lag \in {Absent, Null, Num(0), Num(7)},
         end \in EndValues,
         topic \in {Absent, Str("c")},
         owner \in {Absent, Str(""), Str("alice")}}

InitStats ==
    /\ self = NewClient
    /\ call = NoCall
    /\ input \in PartitionRecords
    /\ ncalls = 0

NextStats == GetPartitionStats

SpecStats == InitStats /\ [][NextStats]_vars

\* the end object of a partition record, when it is one
EndOf(record) == Get(record, "end", Null)
HasEndLag(record) == EndOf(record).t = "dict" /\ Has(EndOf(record), "lag")

(***************************************************************************)
(* C7.  get_partition_stats prefers current_lag over end.lag: with both    *)
(* present the lag returned is the value of current_lag; the lag of end    *)
(* is returned when the record has no current_lag key.                     *)
(***************************************************************************)
C7_CurrentLagPreferred ==
    call.op = "get_partition_stats" =>
        /\ (Has(input, "current_lag") /\ HasEndLag(input)) =>
               Get(call.ret, "lag", Absent) = Get(input, "current_lag", Absent)
        /\ (~Has(input, "current_lag") /\ HasEndLag(input)) =>
               Get(call.ret, "lag", Absent) = Get(EndOf(input), "lag", Absent)

C7_Witness ==
    /\ call.op = "get_partition_stats"
    /\ Get(input, "current_lag", Absent) = Num(0)
    /\ HasEndLag(input) /\ Get(EndOf(input), "lag", Absent) = Num(3)
    /\ Get(call.ret, "lag", Absent) = Num(0)

(***************************************************************************)
(* C8.  get_partition_stats returns lag 0 when current_lag is null, and    *)
(* when there is neither a current_lag key nor a lag in end.               *)
(***************************************************************************)
C8_LagDefaultsToZero ==
    call.op = "get_partition_stats" =>
        /\ (Has(input, "current_lag") /\ Get(input, "current_lag", Absent) = Null) =>
               Get(call.ret, "lag", Absent) = Num(0)
        /\ (~Has(input, "current_lag") /\ ~HasEndLag(input)) =>
               Get(call.ret, "lag", Absent) = Num(0)

(***************************************************************************)
(* C9.  match_topic and match_consumer return true for every value when    *)
(* no pattern is set, and false for an empty or absent value when a        *)
(* non-empty pattern is set.                                               *)
(***************************************************************************)
C9_FilterEdges ==
    /\ call.op = "match_topic" =>
           /\ self.filter_topic \in {Null, Str("")} => call.ret = Bool(TRUE)
           /\ (Truthy(self.filter_topic) /\ input \in {Null, Str("")}) =>
                  call.ret = Bool(FALSE)
    /\ call.op = "match_consumer" =>
           /\ self.filter_consumer \in {Null, Str("")} => call.ret = Bool(TRUE)
           /\ (Truthy(self.filter_consumer) /\ input \in {Null, Str("")}) =>
                  call.ret = Bool(FALSE)

\* no topic pattern and an absent topic: the topic passes
C9_Witness ==
    /\ call.op = "match_topic"
    /\ self.filter_topic = Null /\ input = Null
    /\ call.ret = Bool(TRUE)

(***************************************************************************)
(* Numbers and strings of the report cells                                 *)
(***************************************************************************)
\* the result of an expression that may raise
Ok(val) == [raised |-> "", val |-> val]
Err(error) == [raised |-> error, val |-> Null]

Digits == "0123456789"
DigitOf(ch) == (CHOOSE i \in 1..10 : SubSeq(Digits, i, i) = ch) - 1
IsDigits(s) == s # "" /\ \A i \in 1..Len(s) : \E d \in 1..10 : SubSeq(Digits, d, d) = SubSeq(s, i, i)

RECURSIVE ParseNat(_)
ParseNat(s) ==
    IF s = "" THEN 0
    ELSE 10 * ParseNat(SubSeq(s, 1, Len(s) - 1)) + DigitOf(SubSeq(s, Len(s), Len(s)))

\* int(x): a number as it is, a string of digits parsed
ToInt(x) ==
    CASE x.t = "int" -> Ok(x.v)
      [] x.t = "str" -> IF IsDigits(x.v) THEN Ok(ParseNat(x.v)) ELSE Err("ValueError")
      [] OTHER -> Err("TypeError")

RECURSIVE NatToStr(_)
NatToStr(n) ==
    IF n < 10 THEN SubSeq(Digits, n + 1, n + 1)
    ELSE NatToStr(n \div 10) \o SubSeq(Digits, (n % 10) + 1, (n % 10) + 1)

\* str(n)
IntToStr(n) == IF n < 0 THEN "-" \o NatToStr(-n) ELSE NatToStr(n)

\* "{:,}".format(n): a comma before every group of three digits
RECURSIVE GroupNat(_)
GroupNat(n) ==
    IF n < 1000 THEN NatToStr(n)
    ELSE LET low == n % 1000
             pad == IF low < 10 THEN "00" ELSE IF low < 100 THEN "0" ELSE ""
         IN  GroupNat(n \div 1000) \o "," \o pad \o NatToStr(low)

Grouped(n) == IF n < 0 THEN "-" \o GroupNat(-n) ELSE GroupNat(n)

format_number(obj, number) ==
    LET n == ToInt(number)
    IN  IF n.raised # "" THEN n
        ELSE IF obj.decimal THEN Ok(Str(Grouped(n.val)))
        ELSE Ok(Str(IntToStr(n.val)))

\* str(datetime.fromtimestamp(seconds)), to the second
DateStr(seconds) == "@" \o IntToStr(seconds)
\* str(datetime.now() - datetime.fromtimestamp(seconds)), to the second
AgeStr(now, seconds) == IntToStr(now - seconds) \o "s"

\* the try block catches RuntimeError only: what int() raises passes through
timestamp_to_date(timestamp) ==
    LET n == ToInt(timestamp)
    IN  IF n.raised = "RuntimeError" THEN Ok(Str("?"))
        ELSE IF n.raised # "" THEN n
        ELSE Ok(Str(DateStr(n.val \div 1000)))

timestamp_to_age(now, timestamp) ==
    LET n == ToInt(timestamp)
    IN  IF n.raised = "RuntimeError" THEN Ok(Str("?"))
        ELSE IF n.raised # "" THEN n
        ELSE Ok(Str(AgeStr(now, n.val \div 1000)))

\* the characters of the names, in the order of their code points
Ascii == "-.0123456789:?@ABCDEFGHIJKLMNOPQRSTUVWXYZ[]_abcdefghijklmnopqrstuvwxyz"
Code(ch) == CHOOSE i \in 1..Len(Ascii) : SubSeq(Ascii, i, i) = ch

\* s1 < s2 of two Python strings
RECURSIVE StrLess(_, _)
StrLess(s1, s2) ==
    IF s2 = "" THEN FALSE
    ELSE IF s1 = "" THEN TRUE
    ELSE IF Head(s1) = Head(s2) THEN StrLess(Tail(s1), Tail(s2))
    ELSE Code(Head(s1)) < Code(Head(s2))

\* ",".join(strings)
RECURSIVE Join(_)
Join(strings) ==
    IF strings = <<>> THEN ""
    ELSE IF Len(strings) = 1 THEN strings[1]
    ELSE strings[1] \o "," \o Join(Tail(strings))

\* sorted(strings)
RECURSIVE SortedStrings(_)
SortedStrings(set) ==
    IF set = {} THEN <<>>
    ELSE LET least == CHOOSE x \in set : \A y \in set : ~StrLess(y, x)
         IN  <<least>> \o SortedStrings(set \ {least})

\* max() and min() of a list of numbers; of an empty list they raise
Max(numbers) ==
    IF numbers = <<>> THEN Err("ValueError")
    ELSE Ok(Num(CHOOSE x \in {numbers[i].v : i \in 1..Len(numbers)} :
                    \A i \in 1..Len(numbers) : numbers[i].v <= x))
Min(numbers) ==
    IF numbers = <<>> THEN Err("ValueError")
    ELSE Ok(Num(CHOOSE x \in {numbers[i].v : i \in 1..Len(numbers)} :
                    \A i \in 1..Len(numbers) : numbers[i].v >= x))

\* the first exception raised by a sequence of results, evaluated in order
FirstRaised(results) ==
    IF \A i \in 1..Len(results) : results[i].raised = "" THEN ""
    ELSE results[CHOOSE i \in 1..Len(results) :
                     results[i].raised # "" /\ \A j \in 1..(i-1) : results[j].raised = ""].raised

(***************************************************************************)
(* A table: PrettyTable with its field names and rows; get_string(sortby)  *)
(* puts the rows in the order of the named column.                         *)
(***************************************************************************)
RECURSIVE Insert(_, _)
Insert(sorted, row) ==
    IF sorted = <<>> THEN <<row>>
    ELSE IF StrLess(row[1].v, Head(sorted)[1].v) THEN <<row>> \o sorted
    ELSE <<Head(sorted)>> \o Insert(Tail(sorted), row)

RECURSIVE SortByFirst(_)
SortByFirst(rows) ==
    IF rows = <<>> THEN <<>>
    ELSE Insert(SortByFirst(SubSeq(rows, 1, Len(rows) - 1)), rows[Len(rows)])

Table(field_names, rows) == [t |-> "table", fields |-> field_names, rows |-> rows]
Heading(cluster) == [t |-> "heading", fields |-> <<>>, rows |-> <<<<cluster>>>>]

(***************************************************************************)
(* The reports.  A report method yields the machine it leaves and the      *)
(* table it returns; its loop is a recursive operator over the list it     *)
(* iterates, which stops at the first exception.                           *)
(***************************************************************************)
Rows(m, rows) == [m |-> m, rows |-> rows]

\* the cells of one row, or the first exception met while computing them
RowOf(results) ==
    Do(results, LAMBDA cells :
        IF FirstRaised(cells) # "" THEN Err(FirstRaised(cells))
        ELSE Ok([i \in 1..Len(cells) |-> cells[i].val]))

Texts(list) == [i \in 1..Len(list) |-> list[i].v]

\* what a report method returns: its table, or nothing when it raised
Returned(done, field_names, rows) ==
    IF done.m.raised # "" THEN Ret(done.m, Null)
    ELSE Ret(done.m, Table(field_names, rows))

\* one row of the cluster report
report_clusters_row(cluster, details) ==
    LET profile == Get(details, "client-profile", EmptyDict)
    IN  <<cluster,
          Get(profile, "kafka-version", Str("?")),
          Get(profile, "client-id", Str("?")),
          Get(details, "offset-refresh", Str("?")),
          Get(details, "topic-refresh", Str("?")),
          Str(Join(Texts(Get(details, "servers", EmptyList).v)))>>

RECURSIVE report_clusters_rows(_, _, _, _)
report_clusters_rows(m, up, names, rows) ==
    IF names = <<>> THEN Rows(m, rows)
    ELSE Do(cluster_details(m, up, Head(names).v), LAMBDA d :
             IF d.m.raised # "" THEN Rows(d.m, rows)
             ELSE Do(Append(rows, report_clusters_row(Head(names), d.val)), LAMBDA more :
                      report_clusters_rows(d.m, up, Tail(names), more)))

report_clusters(m, up) ==
    LET field_names == <<"Cluster", "Version", "Client ID", "Refresh Offsets",
                         "Refresh Topics", "Servers">>
    IN  Do(clusters(m, up), LAMBDA listed :
            IF listed.m.raised # "" THEN Ret(listed.m, Null)
            ELSE Do(report_clusters_rows(listed.m, up, listed.val.v, <<>>), LAMBDA done :
                     Returned(done, field_names, done.rows)))

\* one row of the topic report, the first and the last offset taken for
\* the least and the greatest
report_topics_row_first_last(obj, topic, offsets) ==
    LET partitions == Num(Len(offsets))
        max_offset == IF offsets = <<>> THEN Err("ValueError") ELSE Ok(offsets[Len(offsets)])
        min_offset == IF offsets = <<>> THEN Err("ValueError") ELSE Ok(offsets[1])
        formatted == [i \in 1..Len(offsets) |-> format_number(obj, offsets[i])]
        offsets_string == Ok(Str(Join([i \in 1..Len(offsets) |-> formatted[i].val.v])))
    IN  IF FirstRaised(<<max_offset, min_offset>> \o formatted) # ""
        THEN Err(FirstRaised(<<max_offset, min_offset>> \o formatted))
        ELSE IF obj.verbose
        THEN RowOf(<<Ok(topic), Ok(partitions), offsets_string>>)
        ELSE RowOf(<<Ok(topic), Ok(partitions),
                     format_number(obj, min_offset.val), format_number(obj, max_offset.val)>>)

\* one row of the topic report
report_topics_row(obj, topic, offsets) ==
    LET partitions == Num(Len(offsets))
        max_offset == Max(offsets)
        min_offset == Min(offsets)
        formatted == [i \in 1..Len(offsets) |-> format_number(obj, offsets[i])]
        offsets_string == Ok(Str(Join([i \in 1..Len(offsets) |-> formatted[i].val.v])))
    IN  IF FirstRaised(<<max_offset, min_offset>> \o formatted) # ""
        THEN Err(FirstRaised(<<max_offset, min_offset>> \o formatted))
        ELSE IF obj.verbose
        THEN RowOf(<<Ok(topic), Ok(partitions), offsets_string>>)
        ELSE RowOf(<<Ok(topic), Ok(partitions),
                     format_number(obj, min_offset.val), format_number(obj, max_offset.val)>>)

RECURSIVE report_topics_rows(_, _, _, _, _)
report_topics_rows(m, up, cluster, names, rows) ==
    IF names = <<>> THEN Rows(m, rows)
    ELSE IF ~match_topic(m.self, Head(names)).v
    THEN report_topics_rows(m, up, cluster, Tail(names), rows)
    ELSE Do(topic_details(m, up, cluster, Head(names).v), LAMBDA d :
             IF d.m.raised # "" THEN Rows(d.m, rows)
             ELSE Do(report_topics_row(d.m.self, Head(names), d.val.v), LAMBDA row :
                      IF row.raised # "" THEN Rows([d.m EXCEPT !.raised = row.raised], rows)
                      ELSE Do(Append(rows, row.val), LAMBDA more :
                               report_topics_rows(d.m, up, cluster, Tail(names), more))))

report_topics(m, up, cluster) ==
    LET field_names == IF m.self.verbose THEN <<"Topic", "Partitions", "Offsets">>
                       ELSE <<"Topic", "Partitions", "Min Offset", "Max Offset">>
    IN  Do(topics(m, up, cluster), LAMBDA listed :
            IF listed.m.raised # "" THEN Ret(listed.m, Null)
            ELSE Do(report_topics_rows(listed.m, up, cluster, listed.val.v, <<>>), LAMBDA done :
                     Returned(done, field_names, SortByFirst(done.rows))))

\* one row of the consumer report: a detail of a topic of a consumer group
report_consumers_row(obj, now, consumer, topic, detail) ==
    LET owner == Get(detail, "owner", Str("?"))
        lag == Get(detail, "current-lag", Str("?"))
        offset_data == Get(detail, "offsets", EmptyList).v
        offsets == [i \in 1..Len(offset_data) |-> Get(offset_data[i], "offset", Num(0))]
        timestamps == [i \in 1..Len(offset_data) |-> Get(offset_data[i], "timestamp", Num(0))]
        max_offset == Max(offsets)
        min_offset == Min(offsets)
        max_timestamp == Max(timestamps)
    IN  IF FirstRaised(<<max_offset, min_offset, max_timestamp>>) # ""
        THEN Err(FirstRaised(<<max_offset, min_offset, max_timestamp>>))
        ELSE RowOf(<<Ok(consumer), Ok(topic), Ok(owner),
                     format_number(obj, lag),
                     format_number(obj, min_offset.val),
                     format_number(obj, max_offset.val),
                     format_number(obj, max_timestamp.val),
                     timestamp_to_date(max_timestamp.val),
                     timestamp_to_age(now, max_timestamp.val)>>)

\* for detail in details
RECURSIVE report_consumers_details(_, _, _, _, _, _)
report_consumers_details(obj, now, consumer, topic, details, rows) ==
    IF details = <<>> THEN Ok(rows)
    ELSE Do(report_consumers_row(obj, now, consumer, topic, Head(details)), LAMBDA row :
             IF row.raised # "" THEN Err(row.raised)
             ELSE Do(Append(rows, row.val), LAMBDA more :
                      report_consumers_details(obj, now, consumer, topic, Tail(details), more)))

\* for topic, details in consumer_details.items()
RECURSIVE report_consumers_items(_, _, _, _, _)
report_consumers_items(obj, now, consumer, items, rows) ==
    IF items = <<>> THEN Ok(rows)
    ELSE IF ~match_topic(obj, Str(Head(items).k)).v
    THEN report_consumers_items(obj, now, consumer, Tail(items), rows)
    ELSE Do(report_consumers_details(obj, now, consumer, Str(Head(items).k),
                                     Head(items).v.v, rows), LAMBDA more :
             IF more.raised # "" THEN more
             ELSE report_consumers_items(obj, now, consumer, Tail(items), more.val))

RECURSIVE report_consumers_rows(_, _, _, _, _)
report_consumers_rows(m, up, cluster, names, rows) ==
    IF names = <<>> THEN Rows(m, rows)
    ELSE IF ~match_consumer(m.self, Head(names)).v
    THEN report_consumers_rows(m, up, cluster, Tail(names), rows)
    ELSE Do(consumer_details(m, up, cluster, Head(names).v), LAMBDA d :
             IF d.m.raised # "" THEN Rows(d.m, rows)
             ELSE Do(report_consumers_items(d.m.self, up.now, Head(names), d.val.v, rows),
                     LAMBDA more :
                      IF more.raised # "" THEN Rows([d.m EXCEPT !.raised = more.raised], rows)
                      ELSE report_consumers_rows(d.m, up, cluster, Tail(names), more.val)))

report_consumers(m, up, cluster) ==
    LET field_names == <<"Consumer Group", "Topic", "Owner", "Current Lag", "Min Offset",
                         "Max Offset", "Timestamp", "Date", "Age">>
    IN  Do(consumers(m, up, cluster), LAMBDA listed :
            IF listed.m.raised # "" THEN Ret(listed.m, Null)
            ELSE Do(report_consumers_rows(listed.m, up, cluster, listed.val.v, <<>>),
                    LAMBDA done : Returned(done, field_names, SortByFirst(done.rows))))

\* x > y of two JSON values; Python orders numbers only with numbers
Greater(x, y) ==
    IF x.t = "int" /\ y.t = "int" THEN Ok(x.v > y.v) ELSE Err("TypeError")

\* the Current Lag of a snapshot taken from the whole of it, not from maxlag
status_lag_total(snapshot) ==
    Get(snapshot, "totallag", Num(0))

\* the Current Lag of a consumer status snapshot
status_lag(snapshot) ==
    IF Has(snapshot, "maxlag") /\ Truthy(Get(snapshot, "maxlag", Null))
    THEN Get(get_partition_stats(Get(snapshot, "maxlag", Null)), "lag", Num(0))
    ELSE Num(0)

\* what the loop over the partitions of a snapshot gathers
NoPartitions == [topics |-> <<>>, owners |-> {}, max_offset |-> Num(0), max_timestamp |-> Num(0)]

\* one partition more, its owner counted even when it is empty
status_partition_any_owner(seen, partition_stats) ==
    LET offset == Get(partition_stats, "offset", Null)
        timestamp == Get(partition_stats, "timestamp", Null)
        topic == Get(partition_stats, "topic", Null)
        owner == Get(partition_stats, "owner", Null)
        higher == Greater(offset, seen.max_offset)
        later == Greater(timestamp, seen.max_timestamp)
    IN  IF FirstRaised(<<higher, later>>) # "" THEN Err(FirstRaised(<<higher, later>>))
        ELSE Ok([topics |-> IF ~Truthy(topic) THEN seen.topics
                            ELSE IF topic.v \notin DOMAIN seen.topics
                            THEN Put(seen.topics, topic.v, 1)
                            ELSE Put(seen.topics, topic.v, seen.topics[topic.v] + 1),
                 owners |-> IF owner.t = "str" THEN seen.owners \cup {owner.v} ELSE seen.owners,
                 max_offset |-> IF higher.val THEN offset ELSE seen.max_offset,
                 max_timestamp |-> IF later.val THEN timestamp ELSE seen.max_timestamp])

\* one partition more: its offset, timestamp, topic and owner
status_partition(seen, partition_stats) ==
    LET offset == Get(partition_stats, "offset", Null)
        timestamp == Get(partition_stats, "timestamp", Null)
        topic == Get(partition_stats, "topic", Null)
        owner == Get(partition_stats, "owner", Null)
        higher == Greater(offset, seen.max_offset)
        later == Greater(timestamp, seen.max_timestamp)
    IN  IF FirstRaised(<<higher, later>>) # "" THEN Err(FirstRaised(<<higher, later>>))
        ELSE Ok([topics |-> IF ~Truthy(topic) THEN seen.topics
                            ELSE IF topic.v \notin DOMAIN seen.topics
                            THEN Put(seen.topics, topic.v, 1)
                            ELSE Put(seen.topics, topic.v, seen.topics[topic.v] + 1),
                 owners |-> IF Truthy(owner) THEN seen.owners \cup {owner.v} ELSE seen.owners,
                 max_offset |-> IF higher.val THEN offset ELSE seen.max_offset,
                 max_timestamp |-> IF later.val THEN timestamp ELSE seen.max_timestamp])

RECURSIVE status_partitions(_, _, _)
status_partitions(obj, partitions, seen) ==
    IF partitions = <<>> THEN Ok(seen)
    ELSE Do(get_partition_stats(Head(partitions)), LAMBDA partition_stats :
             IF ~match_topic(obj, Get(partition_stats, "topic", Null)).v
             THEN status_partitions(obj, Tail(partitions), seen)
             ELSE Do(status_partition(seen, partition_stats), LAMBDA more :
                      IF more.raised # "" THEN more
                      ELSE status_partitions(obj, Tail(partitions), more.val)))

\* "name[count]" of every topic, sorted by name
TopicsString(counts) ==
    LET names == SortedStrings(DOMAIN counts)
    IN  Join([i \in 1..Len(names) |-> names[i] \o "[" \o IntToStr(counts[names[i]]) \o "]"])

\* one row of the consumer status report
report_consumer_status_row(obj, now, consumer, snapshot) ==
    LET lag == status_lag(snapshot)
        status == Get(snapshot, "status", Str("?"))
        total_lag == Get(snapshot, "totallag", Num(0))
        partitions == Get(snapshot, "partitions", EmptyList).v
    IN  Do(status_partitions(obj, partitions, NoPartitions), LAMBDA seen :
            IF seen.raised # "" THEN seen
            ELSE RowOf(<<Ok(consumer), Ok(status),
                         format_number(obj, lag),
                         format_number(obj, total_lag),
                         format_number(obj, seen.val.max_offset),
                         format_number(obj, seen.val.max_timestamp),
                         timestamp_to_date(seen.val.max_timestamp),
                         timestamp_to_age(now, seen.val.max_timestamp)>>
                       \o IF obj.verbose
                          THEN <<Ok(Str(Join(SortedStrings(seen.val.owners)))),
                                 Ok(Str(TopicsString(seen.val.topics)))>>
                          ELSE <<>>))

\* the loop of the consumer status report with the status fetched before
\* the consumer filter is asked
RECURSIVE report_consumer_status_rows_fetch_first(_, _, _, _, _)
report_consumer_status_rows_fetch_first(m, up, cluster, names, rows) ==
    IF names = <<>> THEN Rows(m, rows)
    ELSE Do(consumer_status(m, up, cluster, Head(names).v), LAMBDA d :
             IF d.m.raised # "" THEN Rows(d.m, rows)
             ELSE IF ~match_consumer(d.m.self, Head(names)).v
             THEN report_consumer_status_rows_fetch_first(d.m, up, cluster, Tail(names), rows)
             ELSE Do(report_consumer_status_row(d.m.self, up.now, Head(names), d.val),
                     LAMBDA row :
                      IF row.raised # "" THEN Rows([d.m EXCEPT !.raised = row.raised], rows)
                      ELSE Do(Append(rows, row.val), LAMBDA more :
                               report_consumer_status_rows_fetch_first(d.m, up, cluster,
                                                                       Tail(names), more))))

RECURSIVE report_consumer_status_rows(_, _, _, _, _)
report_consumer_status_rows(m, up, cluster, names, rows) ==
    IF names = <<>> THEN Rows(m, rows)
    ELSE IF ~match_consumer(m.self, Head(names)).v
    THEN report_consumer_status_rows(m, up, cluster, Tail(names), rows)
    ELSE Do(consumer_status(m, up, cluster, Head(names).v), LAMBDA d :
             IF d.m.raised # "" THEN Rows(d.m, rows)
             ELSE Do(report_consumer_status_row(d.m.self, up.now, Head(names), d.val),
                     LAMBDA row :
                      IF row.raised # "" THEN Rows([d.m EXCEPT !.raised = row.raised], rows)
                      ELSE Do(Append(rows, row.val), LAMBDA more :
                               report_consumer_status_rows(d.m, up, cluster, Tail(names), more))))

report_consumer_status(m, up, cluster) ==
    LET field_names ==
            IF m.self.verbose
            THEN <<"Consumer Group", "Status", "Current Lag", "Total Lag", "Offset",
                   "Timestamp", "Date", "Age", "Owners", "Topics">>
            ELSE <<"Consumer Group", "Status", "Current Lag", "Total Lag", "Offset",
                   "Timestamp", "Date", "Age">>
    IN  Do(consumers(m, up, cluster), LAMBDA listed :
            IF listed.m.raised # "" THEN Ret(listed.m, Null)
            ELSE Do(report_consumer_status_rows(listed.m, up, cluster, listed.val.v, <<>>),
                    LAMBDA done : Returned(done, field_names, SortByFirst(done.rows))))

\* one row of the consumer partitions report
report_consumer_partitions_row(obj, now, consumer, partition_stats) ==
    RowOf(<<Ok(consumer),
            Ok(Get(partition_stats, "topic", Null)),
            Ok(Get(partition_stats, "partition", Null)),
            Ok(Get(partition_stats, "status", Null)),
            format_number(obj, Get(partition_stats, "lag", Null)),
            Ok(Get(partition_stats, "owner", Null)),
            format_number(obj, Get(partition_stats, "offset", Null)),
            format_number(obj, Get(partition_stats, "timestamp", Null)),
            timestamp_to_date(Get(partition_stats, "timestamp", Null)),
            timestamp_to_age(now, Get(partition_stats, "timestamp", Null))>>)

\* for partition_data in partitions: one row for each that passes the topic filter
RECURSIVE report_consumer_partitions_data(_, _, _, _, _)
report_consumer_partitions_data(obj, now, consumer, partitions, rows) ==
    IF partitions = <<>> THEN Ok(rows)
    ELSE Do(get_partition_stats(Head(partitions)), LAMBDA partition_stats :
             IF ~match_topic(obj, Get(partition_stats, "topic", Null)).v
             THEN report_consumer_partitions_data(obj, now, consumer, Tail(partitions), rows)
             ELSE Do(report_consumer_partitions_row(obj, now, consumer, partition_stats),
                     LAMBDA row :
                      IF row.raised # "" THEN Err(row.raised)
                      ELSE Do(Append(rows, row.val), LAMBDA more :
                               report_consumer_partitions_data(obj, now, consumer,
                                                               Tail(partitions), more))))

RECURSIVE report_consumer_partitions_rows(_, _, _, _, _)
report_consumer_partitions_rows(m, up, cluster, names, rows) ==
    IF names = <<>> THEN Rows(m, rows)
    ELSE IF ~match_consumer(m.self, Head(names)).v
    THEN report_consumer_partitions_rows(m, up, cluster, Tail(names), rows)
    ELSE Do(consumer_status(m, up, cluster, Head(names).v), LAMBDA d :
             IF d.m.raised # "" THEN Rows(d.m, rows)
             ELSE Do(report_consumer_partitions_data(d.m.self, up.now, Head(names),
                         Get(d.val, "partitions", EmptyList).v, rows),
                     LAMBDA more :
                      IF more.raised # "" THEN Rows([d.m EXCEPT !.raised = more.raised], rows)
                      ELSE report_consumer_partitions_rows(d.m, up, cluster, Tail(names),
                                                           more.val)))

report_consumer_partitions(m, up, cluster) ==
    LET field_names == <<"Consumer Group", "Topic", "Partition", "Status", "Lag", "Owner",
                         "Offset", "Timestamp", "Date", "Age">>
    IN  Do(consumers(m, up, cluster), LAMBDA listed :
            IF listed.m.raised # "" THEN Ret(listed.m, Null)
            ELSE Do(report_consumer_partitions_rows(listed.m, up, cluster, listed.val.v, <<>>),
                    LAMBDA done : Returned(done, field_names, SortByFirst(done.rows))))

(***************************************************************************)
(* report(): the enabled sections, one after the other.  The text is the   *)
(* sequence of its blocks (tables and cluster headings).                   *)
(***************************************************************************)
Text(m, text) == [m |-> m, text |-> text]

\* report += section
Added(acc, r) ==
    IF r.m.raised # "" THEN Text(r.m, acc.text) ELSE Text(r.m, Append(acc.text, r.val))

\* the heading written for the topic section only
Headed_topics_only(acc, cluster) ==
    IF acc.m.self.enable_topics
    THEN Text(acc.m, Append(acc.text, Heading(cluster)))
    ELSE acc

\* "### Cluster: {cluster} ###", when a section of the clusters is enabled
Headed(acc, cluster) ==
    IF acc.m.self.enable_topics \/ acc.m.self.enable_consumers
       \/ acc.m.self.enable_consumer_status \/ acc.m.self.enable_consumer_partitions
    THEN Text(acc.m, Append(acc.text, Heading(cluster)))
    ELSE acc

\* the sections of one cluster with the partitions ahead of the others
report_cluster_partitions_first(acc, up, cluster) ==
    Do(Headed(acc, cluster), LAMBDA s0 :
    Do(IF s0.m.self.enable_consumer_partitions
       THEN Added(s0, report_consumer_partitions(s0.m, up, cluster)) ELSE s0, LAMBDA s1 :
    Do(IF s1.m.raised = "" /\ s1.m.self.enable_topics
       THEN Added(s1, report_topics(s1.m, up, cluster)) ELSE s1, LAMBDA s2 :
    Do(IF s2.m.raised = "" /\ s2.m.self.enable_consumers
       THEN Added(s2, report_consumers(s2.m, up, cluster)) ELSE s2, LAMBDA s3 :
       IF s3.m.raised = "" /\ s3.m.self.enable_consumer_status
       THEN Added(s3, report_consumer_status(s3.m, up, cluster)) ELSE s3))))

\* the sections of one cluster, after the text acc
report_cluster(acc, up, cluster) ==
    Do(Headed(acc, cluster), LAMBDA s0 :
    Do(IF s0.m.self.enable_topics
       THEN Added(s0, report_topics(s0.m, up, cluster)) ELSE s0, LAMBDA s1 :
    Do(IF s1.m.raised = "" /\ s1.m.self.enable_consumers
       THEN Added(s1, report_consumers(s1.m, up, cluster)) ELSE s1, LAMBDA s2 :
    Do(IF s2.m.raised = "" /\ s2.m.self.enable_consumer_status
       THEN Added(s2, report_consumer_status(s2.m, up, cluster)) ELSE s2, LAMBDA s3 :
       IF s3.m.raised = "" /\ s3.m.self.enable_consumer_partitions
       THEN Added(s3, report_consumer_partitions(s3.m, up, cluster)) ELSE s3))))

RECURSIVE report_sections(_, _, _)
report_sections(acc, up, names) ==
    IF names = <<>> \/ acc.m.raised # "" THEN acc
    ELSE Do(report_cluster(acc, up, Head(names).v), LAMBDA more :
             report_sections(more, up, Tail(names)))

report(m, up) ==
    Do(IF m.self.enable_clusters THEN Added(Text(m, <<>>), report_clusters(m, up))
       ELSE Text(m, <<>>), LAMBDA s0 :
        IF s0.m.raised # "" THEN Ret(s0.m, Null)
        ELSE Do(clusters(s0.m, up), LAMBDA listed :
                 IF listed.m.raised # "" THEN Ret(listed.m, Null)
                 ELSE Do(report_sections(Text(listed.m, s0.text), up, listed.val.v),
                         LAMBDA done :
                          IF done.m.raised # "" THEN Ret(done.m, Null)
                          ELSE Ret(done.m, done.text))))

(***************************************************************************)
(* The servers the reports are run against: a version of every resource,   *)
(* or version 1 with one resource failing, or with one member left out of  *)
(* one payload (`missing` names it), or with one payload of another shape. *)
(***************************************************************************)
\* the wall clock of datetime.now(), in seconds
Clocks == {300}

\* the resources a full report of version 1 asks for
ReportPaths ==
    {<<>>}
    \cup {<<c>> : c \in ClusterNames}
    \cup {<<c, kind>> : c \in ClusterNames, kind \in {"topic", "consumer"}}
    \cup {<<"a", kind, x>> : kind \in {"topic", "consumer"}, x \in Names}
    \cup {<<"a-b", "topic", "c">>, <<"a-b", "consumer", "c">>}
    \cup {<<"a", "consumer", x, "lag">> : x \in Names}
    \cup {<<"a-b", "consumer", "c", "lag">>}

Changed(path, resp, missing) == [path |-> path, resp |-> resp, missing |-> missing]

DetailPath == <<"a", "consumer", "c">>
StatusPath == <<"a", "consumer", "c", "lag">>
DetailOf(entry) == Envelope("topics", Dict(<<Pair("c", List(<<entry>>))>>))
FirstPartition == Partition(1, "a", "c", "c", 1, "alice")
SecondPartition == Partition(1, "a", "c", "b-c", 0, "")
\* the status of group c of cluster a with p as its maxlag and first partition
StatusOf(p) ==
    Envelope("status", With(With(Status(1, "a", "c"), "maxlag", p),
                            "partitions", List(<<p, SecondPartition>>)))

\* one member left out of one payload
MissingMembers ==
    {Changed(<<"a", "topic", "c">>, Bare, "offsets")}
    \cup {Changed(<<"a">>, Envelope("module", Without(Module(1, "a"), f)), f) :
              f \in {"client-profile", "servers", "offset-refresh"}}
    \cup {Changed(DetailPath, DetailOf(Without(ConsumerDetailEntry(1, "a", "c"), f)), f) :
              f \in {"current-lag", "offsets", "owner"}}
    \cup {Changed(DetailPath,
                  DetailOf(With(ConsumerDetailEntry(1, "a", "c"), "offsets",
                                List(<<Without(OffsetEntry(0, 7, 7000), f)>>))), f) :
              f \in {"offset", "timestamp"}}
    \cup {Changed(StatusPath, Envelope("status", Without(Status(1, "a", "c"), f)), f) :
              f \in {"maxlag", "totallag", "partitions", "status"}}
    \cup {Changed(StatusPath,
                  Envelope("status", With(Without(Status(1, "a", "c"), "maxlag"),
                                          "totallag", Num(0))), "maxlag")}
    \cup {Changed(StatusPath, StatusOf(Without(FirstPartition, f)), f) :
              f \in {"end", "current_lag", "owner", "topic", "status", "partition"}}
    \cup {Changed(StatusPath,
                  StatusOf(With(FirstPartition, "end", Without(OffsetEntry(21, 8, 8000), f))), f) :
              f \in {"lag", "offset", "timestamp"}}

\* partitions of two owners, one of them met twice, and one without owner
OwnedPartitions ==
    List(<<Partition(1, "a", "c", "c", 1, "bob"),
           Partition(1, "a", "c", "c", 2, "alice"),
           Partition(1, "a", "c", "b-c", 0, ""),
           Partition(1, "a", "c", "b-c", 3, "bob")>>)

\* the offsets of RESPONSE_TOPIC_DETAILS
ExampleOffsets == List(<<Num(2290903), Num(2898892), Num(3902933), Num(2328823)>>)

\* one payload of another shape
OtherShapes ==
    {Changed(p, Envelope(FieldOf(p), EmptyOf(p)), "") :
         p \in {<<>>, <<"a", "topic">>, <<"a", "consumer">>, DetailPath, StatusPath}}
    \cup {Changed(StatusPath, Envelope("status", With(Status(1, "a", "c"), "maxlag", m)), "") :
              m \in {EmptyDict, Null, Without(With(FirstPartition, "end", Num(5)), "current_lag")}}
    \cup {Changed(StatusPath, StatusOf(With(FirstPartition, "current_lag", Null)), "")}
    \cup {Changed(StatusPath, StatusOf(With(FirstPartition, "end", e)), "") :
              e \in {Null, EmptyDict}}
    \cup {Changed(StatusPath,
                  Envelope("status", With(Status(1, "a", "c"), "partitions", OwnedPartitions)),
                  "")}
    \cup {Changed(<<"a", "topic", "c">>, Envelope("offsets", ExampleOffsets), "")}

ReportServers ==
    {[ver |-> ver, path |-> <<>>, resp |-> Answer(ver, <<>>), now |-> now, missing |-> ""] :
         ver \in Versions, now \in Clocks}
    \cup {[ver |-> 1, path |-> p, resp |-> f, now |-> now, missing |-> ""] :
              p \in ReportPaths, f \in Failures, now \in Clocks}
    \cup {[ver |-> 1, path |-> x.path, resp |-> x.resp, now |-> now, missing |-> x.missing] :
              x \in MissingMembers \cup OtherShapes, now \in Clocks}

(***************************************************************************)
(* Running the reports: the client is configured (the filters and the      *)
(* display modes), then one report is asked of it, as the command line     *)
(* tool does before it exits.                                              *)
(***************************************************************************)
ReportsPerRun == 1

SectionNames == {"clusters", "topics", "consumers", "consumer_status", "consumer_partitions"}

\* bc.enable_... = args. ...
Enabled(obj, sections) ==
    [obj EXCEPT !.enable_clusters = "clusters" \in sections,
                !.enable_topics = "topics" \in sections,
                !.enable_consumers = "consumers" \in sections,
                !.enable_consumer_status = "consumer_status" \in sections,
                !.enable_consumer_partitions = "consumer_partitions" \in sections]

Configured(filter_topic, filter_consumer, verbose, decimal) ==
    [NewClient EXCEPT !.filter_topic = filter_topic, !.filter_consumer = filter_consumer,
                      !.verbose = verbose, !.decimal = decimal]

Clients ==
    {NewClient,
     Configured(Null, Null, TRUE, FALSE),
     Configured(Null, Null, FALSE, TRUE),
     Configured(Str("c"), Null, FALSE, FALSE),
     Configured(Null, Str("b"), FALSE, FALSE),
     Configured(Str("b"), Str("c"), TRUE, TRUE)}

RunReport ==
    /\ ncalls < ReportsPerRun
    /\ \E sections \in SUBSET SectionNames : \E up \in ReportServers :
           Called("report", <<>>, up, report(Start(Enabled(self, sections)), up))

ReportClusters ==
    /\ ncalls < ReportsPerRun
    /\ \E up \in ReportServers :
           Called("report_clusters", <<>>, up, report_clusters(Start(self), up))

ReportTopics ==
    /\ ncalls < ReportsPerRun
    /\ \E c \in ClusterNames : \E up \in ReportServers :
           Called("report_topics", <<c>>, up, report_topics(Start(self), up, c))

ReportConsumers ==
    /\ ncalls < ReportsPerRun
    /\ \E c \in ClusterNames : \E up \in ReportServers :
           Called("report_consumers", <<c>>, up, report_consumers(Start(self), up, c))

ReportConsumerStatus ==
    /\ ncalls < ReportsPerRun
    /\ \E c \in ClusterNames : \E up \in ReportServers :
           Called("report_consumer_status", <<c>>, up,
                  report_consumer_status(Start(self), up, c))

ReportConsumerPartitions ==
    /\ ncalls < ReportsPerRun
    /\ \E c \in ClusterNames : \E up \in ReportServers :
           Called("report_consumer_partitions", <<c>>, up,
                  report_consumer_partitions(Start(self), up, c))

InitReport ==
    /\ self \in Clients
    /\ call = NoCall
    /\ input = Null
    /\ ncalls = 0

NextReport ==
    \/ RunReport
    \/ ReportClusters
    \/ ReportTopics
    \/ ReportConsumers
    \/ ReportConsumerStatus
    \/ ReportConsumerPartitions

SpecReport == InitReport /\ [][NextReport]_vars

(***************************************************************************)
(* The claims about the reports, checked under SpecReport.                 *)
(***************************************************************************)
Requested(path) == \E i \in 1..Len(call.reqs) : call.reqs[i] = path

ClusterReports ==
    {"report_topics", "report_consumers", "report_consumer_status",
     "report_consumer_partitions"}

\* C5: a report of a cluster that has read a payload with one member left
\* out still completes and returns its table.
C5_MissingFieldDefaults ==
    (/\ call.op \in ClusterReports
     /\ call.up.missing # ""
     /\ Requested(call.up.path))
        => call.raised = "" /\ call.ret.t = "table"

\* C6: when a request of report() fails, report() ends with that error,
\* returns nothing, and the failing request is the last one it made.
C6_ErrorsPropagate ==
    call.op = "report" =>
        \A i \in 1..Len(call.reqs) :
            Respond(call.up, call.reqs[i]).t = "fail"
                => /\ call.raised = Respond(call.up, call.reqs[i]).v
                   /\ call.ret = Null
                   /\ i = Len(call.reqs)

\* a report() that had printed the cluster table and asked for more than
\* three resources when a request failed to decode
C6_Witness ==
    /\ call.op = "report"
    /\ self.enable_clusters /\ self.enable_consumer_status
    /\ call.raised = "JSONDecodeError"
    /\ Len(call.reqs) > 3
    /\ call.ret = Null

\* the snapshot a consumer status report was given for a consumer group
SnapshotOf(consumer) ==
    Get(Respond(call.up, <<call.args[1], "consumer", consumer, "lag">>),
        "status", EmptyDict)

\* the Current Lag the consumer status summary is to show for a snapshot
ExpectedLag(snapshot) ==
    IF Has(snapshot, "maxlag") /\ Truthy(Get(snapshot, "maxlag", Null))
    THEN Get(get_partition_stats(Get(snapshot, "maxlag", Null)), "lag", Null)
    ELSE Num(0)

\* C10: every row of the consumer status summary shows the normalized lag
\* of the snapshot's maxlag (0 without one) as Current Lag and the
\* snapshot's totallag (0 without one) as Total Lag.
C10_StatusLags ==
    (call.op = "report_consumer_status" /\ call.raised = "") =>
        \A i \in 1..Len(call.ret.rows) :
            LET row == call.ret.rows[i]
                snapshot == SnapshotOf(row[1].v)
            IN  /\ row[3] = format_number(self, ExpectedLag(snapshot)).val
                /\ row[4] = format_number(self, Get(snapshot, "totallag", Num(0))).val

\* a summary with a group whose snapshot has totallag 0 and no maxlag, shown
\* as 0 and 0, next to a group whose maxlag has a lag
C10_Witness ==
    /\ call.op = "report_consumer_status" /\ call.raised = ""
    /\ \E i, j \in 1..Len(call.ret.rows) :
           /\ ~Has(SnapshotOf(call.ret.rows[i][1].v), "maxlag")
           /\ Get(SnapshotOf(call.ret.rows[i][1].v), "totallag", Null) = Num(0)
           /\ call.ret.rows[i][3] = Str("0") /\ call.ret.rows[i][4] = Str("0")
           /\ Has(SnapshotOf(call.ret.rows[j][1].v), "maxlag")
           /\ call.ret.rows[j][3] = Str("1")

\* the partitions of a snapshot whose topic passes the topic filter
PassingPartitions(snapshot) ==
    LET partitions == Get(snapshot, "partitions", EmptyList).v
    IN  {i \in 1..Len(partitions) :
             match_topic(self, Get(partitions[i], "topic", Str("?"))).v}

\* the non-empty owners of the partitions of a snapshot that pass the filter
OwnersOf(snapshot) ==
    LET partitions == Get(snapshot, "partitions", EmptyList).v
    IN  {Get(partitions[i], "owner", Str("?")).v : i \in
             {j \in PassingPartitions(snapshot) :
                  Truthy(Get(partitions[j], "owner", Str("?")))}}

\* C11: in the verbose consumer status summary the Owners cell of a consumer
\* is the sorted, comma-joined set of the non-empty owners of its partitions
\* that pass the topic filter.
C11_Owners ==
    (call.op = "report_consumer_status" /\ call.raised = "" /\ self.verbose) =>
        \A i \in 1..Len(call.ret.rows) :
            call.ret.rows[i][9]
                = Str(Join(SortedStrings(OwnersOf(SnapshotOf(call.ret.rows[i][1].v)))))

\* a verbose summary of a consumer whose two partitions, owned by "alice"
\* and by "", both pass the filter: the Owners cell is exactly alice
C11_Witness ==
    /\ call.op = "report_consumer_status" /\ call.raised = "" /\ self.verbose
    /\ \E i \in 1..Len(call.ret.rows) :
           LET partitions == Get(SnapshotOf(call.ret.rows[i][1].v), "partitions", EmptyList).v
           IN  /\ Len(partitions) = 2
               /\ PassingPartitions(SnapshotOf(call.ret.rows[i][1].v)) = {1, 2}
               /\ {Get(partitions[j], "owner", Null) : j \in 1..2} = {Str(""), Str("alice")}
               /\ call.ret.rows[i][9] = Str("alice")

\* the cell of a row under the column of that name, when the table has it
HasColumn(table, name) == \E k \in 1..Len(table.fields) : table.fields[k] = name
Cell(table, row, name) == row[CHOOSE k \in 1..Len(table.fields) : table.fields[k] = name]

\* the topics and the offsets the server gives the topic report of a cluster
\* the list of names an answer holds in a field; none when the request fails
Listed(path, field) ==
    IF Respond(call.up, path).t = "dict"
    THEN Get(Respond(call.up, path), field, EmptyList).v
    ELSE <<>>

TopicsOf(cluster) == Listed(<<cluster, "topic">>, "topics")
OffsetsOf(cluster, topic) ==
    Get(Respond(call.up, <<cluster, "topic", topic>>), "offsets", EmptyList).v

\* the cell shows the least (the greatest) of the numbers
ShowsLeast(cell, numbers) ==
    \E j \in 1..Len(numbers) :
        /\ \A k \in 1..Len(numbers) : numbers[j].v <= numbers[k].v
        /\ cell = format_number(self, numbers[j]).val
ShowsGreatest(cell, numbers) ==
    \E j \in 1..Len(numbers) :
        /\ \A k \in 1..Len(numbers) : numbers[j].v >= numbers[k].v
        /\ cell = format_number(self, numbers[j]).val

\* C12: the topic summary has exactly one row for every topic that passes the
\* topic filter and none for another; the row's Partitions is the length of
\* the topic's offset list, its Min Offset and Max Offset the least and the
\* greatest of that list.
C12_TopicRows ==
    (call.op = "report_topics" /\ call.raised = "") =>
        LET table == call.ret
            cluster == call.args[1]
            listed == TopicsOf(cluster)
        IN  /\ \A t \in 1..Len(listed) :
                   Cardinality({i \in 1..Len(table.rows) : table.rows[i][1] = listed[t]})
                       = IF match_topic(self, listed[t]).v THEN 1 ELSE 0
            /\ \A i \in 1..Len(table.rows) :
                   LET row == table.rows[i]
                       offsets == OffsetsOf(cluster, row[1].v)
                   IN  /\ \E t \in 1..Len(listed) : listed[t] = row[1]
                       /\ Cell(table, row, "Partitions") = Num(Len(offsets))
                       /\ HasColumn(table, "Min Offset")
                              => ShowsLeast(Cell(table, row, "Min Offset"), offsets)
                       /\ HasColumn(table, "Max Offset")
                              => ShowsGreatest(Cell(table, row, "Max Offset"), offsets)

\* the summary of a topic with the offsets of RESPONSE_TOPIC_DETAILS, next to
\* another topic's row
C12_Witness ==
    /\ call.op = "report_topics" /\ call.raised = ""
    /\ Len(call.ret.rows) = 2
    /\ \E i \in 1..Len(call.ret.rows) :
           /\ OffsetsOf(call.args[1], call.ret.rows[i][1].v) = ExampleOffsets.v
           /\ call.ret.rows[i]
                  = <<call.ret.rows[i][1], Num(4), Str("2290903"), Str("3902933")>>

\* the five reports
Reports == {"report_clusters"} \cup ClusterReports

\* C13: every report that completes has its rows in ascending order of the
\* first column.
C13_RowsSorted ==
    (call.op \in Reports /\ call.raised = "") =>
        \A i \in 1..(Len(call.ret.rows) - 1) :
            ~StrLess(call.ret.rows[i + 1][1].v, call.ret.rows[i][1].v)

\* the cluster list the server gives
ClusterListOf == Get(Respond(call.up, <<>>), "clusters", EmptyList).v

\* the sections of a cluster that are enabled, in the order of report()
ClusterSections(obj) ==
    (IF obj.enable_topics THEN <<"report_topics">> ELSE <<>>)
    \o (IF obj.enable_consumers THEN <<"report_consumers">> ELSE <<>>)
    \o (IF obj.enable_consumer_status THEN <<"report_consumer_status">> ELSE <<>>)
    \o (IF obj.enable_consumer_partitions THEN <<"report_consumer_partitions">> ELSE <<>>)

\* a block of the text with the content of its table left out
Blank == [t |-> "table", fields |-> <<>>, rows |-> <<>>]
Outline(text) == [i \in 1..Len(text) |-> IF text[i].t = "heading" THEN text[i] ELSE Blank]

\* a heading for each cluster, each followed by that cluster's sections
RECURSIVE Layout(_, _)
Layout(obj, names) ==
    IF names = <<>> THEN <<>>
    ELSE (IF ClusterSections(obj) # <<>> THEN <<Heading(Head(names).v)>> ELSE <<>>)
         \o [i \in 1..Len(ClusterSections(obj)) |-> Blank]
         \o Layout(obj, Tail(names))

\* C14: the text of report() has the heading of every cluster of the cluster
\* list once, in list order and before the cluster's sections, exactly when
\* a section of the clusters is enabled; with the cluster summary alone it
\* has no heading.
C14_Headings ==
    (call.op = "report" /\ call.raised = "") =>
        Outline(call.ret)
            = (IF self.enable_clusters THEN <<Blank>> ELSE <<>>) \o Layout(self, ClusterListOf)

\* a report of the consumer status alone, of the clusters a-b and a
C14_Witness ==
    /\ call.op = "report" /\ call.raised = ""
    /\ ClusterSections(self) = <<"report_consumer_status">>
    /\ ~self.enable_clusters
    /\ ClusterListOf = <<Str("a-b"), Str("a")>>
    /\ Outline(call.ret) = <<Heading("a-b"), Blank, Heading("a"), Blank>>

\* the place of a cluster in the cluster list
ClusterIndex(cluster) ==
    CHOOSE i \in 1..Len(ClusterListOf) :
        ClusterListOf[i].v = cluster /\ \A j \in 1..(i - 1) : ClusterListOf[j].v # cluster

\* the requests of a call made for the sections of a cluster
ClusterRequests == {i \in 1..Len(call.reqs) : Len(call.reqs[i]) >= 2}

\* the report method a table comes from, told by its columns
SectionOf(table) ==
    CASE table.t = "heading" -> "heading"
      [] table.fields[1] = "Cluster" -> "report_clusters"
      [] table.fields[1] = "Topic" -> "report_topics"
      [] table.fields[3] = "Owner" -> "report_consumers"
      [] table.fields[3] = "Partition" -> "report_consumer_partitions"
      [] OTHER -> "report_consumer_status"

\* for each cluster its heading and its sections, in the order of report()
RECURSIVE SectionLayout(_, _)
SectionLayout(obj, names) ==
    IF names = <<>> \/ ClusterSections(obj) = <<>> THEN <<>>
    ELSE <<"heading">> \o ClusterSections(obj) \o SectionLayout(obj, Tail(names))

\* C16: in one report() every request for the sections of a cluster comes
\* before every such request of a later cluster of the cluster list, within
\* a cluster no topic request follows a consumer request, and the sections
\* of a cluster stand in the order topics, consumers, consumer status,
\* consumer partitions.
C16_ClusterByCluster ==
    call.op = "report" =>
        /\ \A i, j \in ClusterRequests :
               i < j => /\ ClusterIndex(call.reqs[i][1]) <= ClusterIndex(call.reqs[j][1])
                        /\ call.reqs[i][1] = call.reqs[j][1]
                               => ~(call.reqs[i][2] = "consumer" /\ call.reqs[j][2] = "topic")
        /\ call.raised = ""
               => [i \in 1..Len(call.ret) |-> SectionOf(call.ret[i])]
                      = (IF self.enable_clusters THEN <<"report_clusters">> ELSE <<>>)
                        \o SectionLayout(self, ClusterListOf)

\* a full report of the clusters a-b and a: the requests for a-b, then the
\* requests for a, and the four sections of each in their order
C16_Witness ==
    /\ call.op = "report" /\ call.raised = ""
    /\ Len(ClusterSections(self)) = 4
    /\ ClusterListOf = <<Str("a-b"), Str("a")>>
    /\ \E k \in ClusterRequests :
           /\ k - 1 \in ClusterRequests /\ k + 1 \in ClusterRequests
           /\ \A i \in ClusterRequests : call.reqs[i][1] = IF i < k THEN "a-b" ELSE "a"
    /\ [i \in 1..Len(call.ret) |-> SectionOf(call.ret[i])]
           = <<"heading", "report_topics", "report_consumers", "report_consumer_status",
               "report_consumer_partitions",
               "heading", "report_topics", "report_consumers", "report_consumer_status",
               "report_consumer_partitions">>

\* a name a filter rejects: the filter is set and does not match its start
Rejected(filter, name) == Truthy(filter) /\ ~re_match(filter.v, name)

\* the consumer groups the server lists for a cluster
ConsumersOf(cluster) == Listed(<<cluster, "consumer">>, "consumers")

\* C17: a report of a cluster asks for no detail and no status of a consumer
\* group the consumer filter rejects and holds no cache entry of it, and the
\* topic report asks for no detail of a topic the topic filter rejects.
C17_FilterBeforeFetch ==
    LET cluster == call.args[1]
    IN  /\ call.op \in {"report_consumers", "report_consumer_status",
                        "report_consumer_partitions"} =>
               \A g \in 1..Len(ConsumersOf(cluster)) :
                   Rejected(self.filter_consumer, ConsumersOf(cluster)[g].v) =>
                       /\ ~Requested(<<cluster, "consumer", ConsumersOf(cluster)[g].v>>)
                       /\ ~Requested(<<cluster, "consumer", ConsumersOf(cluster)[g].v, "lag">>)
                       /\ PairKey(cluster, ConsumersOf(cluster)[g].v)
                              \notin DOMAIN self._consumer_details
                       /\ PairKey(cluster, ConsumersOf(cluster)[g].v)
                              \notin DOMAIN self._consumer_status
        /\ call.op = "report_topics" =>
               \A t \in 1..Len(TopicsOf(cluster)) :
                   Rejected(self.filter_topic, TopicsOf(cluster)[t].v) =>
                       ~Requested(<<cluster, "topic", TopicsOf(cluster)[t].v>>)

\* a consumer status summary of cluster a under the consumer filter b: the
\* status of b-c was asked for and cached, that of c was not
C17_Witness ==
    /\ call.op = "report_consumer_status" /\ call.raised = ""
    /\ call.args = <<"a">>
    /\ Rejected(self.filter_consumer, "c") /\ ~Rejected(self.filter_consumer, "b-c")
    /\ ConsumersOf("a") = <<Str("c"), Str("b-c")>>
    /\ Requested(<<"a", "consumer", "b-c", "lag">>)
    /\ ~Requested(<<"a", "consumer", "c", "lag">>)
    /\ DOMAIN self._consumer_status = {PairKey("a", "b-c")}

(***************************************************************************)
(* The two timestamp conversions, called on their own with a timestamp of  *)
(* any kind.                                                               *)
(***************************************************************************)
\* the timestamps tried, in milliseconds: numbers, strings of digits, and
\* values that are no number
Timestamps ==
    {Num(1000 * k) : k \in 0..12}
    \cup {Num(k) : k \in {1, 999, 1001, 299999}}
    \cup {Str("0"), Str("1000"), Str("2500"), Str("300000")}
    \cup {Str("?"), Str(""), Str("a"), Str("1-2"), Str("12:00"), Null, EmptyList, EmptyDict}

\* a static method returning or raising
Evaluated(op, r) ==
    /\ call' = [op |-> op, args |-> <<input>>, up |-> Null,
                reqs |-> <<>>, raised |-> r.raised, ret |-> r.val]
    /\ ncalls' = ncalls + 1
    /\ UNCHANGED <<self, input>>

TimestampToDate ==
    /\ ncalls < MaxCalls
    /\ Evaluated("timestamp_to_date", timestamp_to_date(input))

TimestampToAge ==
    /\ ncalls < MaxCalls
    /\ \E now \in Clocks : Evaluated("timestamp_to_age", timestamp_to_age(now, input))

InitTime ==
    /\ self = NewClient
    /\ call = NoCall
    /\ input \in Timestamps
    /\ ncalls = 0

NextTime ==
    \/ TimestampToDate
    \/ TimestampToAge

SpecTime == InitTime /\ [][NextTime]_vars

\* a number, or a string that int() reads as one
ValidNumber(x) == x.t = "int" \/ (x.t = "str" /\ IsDigits(x.v))

\* C15: given a timestamp that is no valid number, timestamp_to_date and
\* timestamp_to_age return "?" and do not raise.
C15_InvalidTimestampSentinel ==
    (call.op \in {"timestamp_to_date", "timestamp_to_age"} /\ ~ValidNumber(input))
        => call.raised = "" /\ call.ret = Str("?")

====
